---- MODULE Spec2Model ----
(***************************************************************************)
(* Model of the static code metrics extractor (pymetrix.py) and of the     *)
(* labeling step of the ELT pipeline (sdp_elt_data_pipeline.py).           *)
(*                                                                         *)
(* A syntax tree is a sequence of nodes; node 1 is the root and every      *)
(* other node names its parent, which has a smaller index.  The children   *)
(* of a node, in order, are the nodes naming it as parent, by index.       *)
(* A tree keeps the nodes of the kinds the metrics tell apart; the nodes   *)
(* Python adds beside them (operators, contexts, argument lists, plain     *)
(* statements) are left out.                                               *)
(* Strings that the code concatenates or tests with endswith are           *)
(* sequences of one-character strings.                                     *)
(* Numbers rounded to two decimals (APF, AMC) are integers counting        *)
(* hundredths: 150 stands for 1.5.                                         *)
(***************************************************************************)
EXTENDS Integers, Sequences, FiniteSets, TLC

VARIABLES
    tree,        \* the syntax tree handed to the tree metrics
    tpc,         \* "parsed" before the tree metrics ran, "analyzed" after
    m,           \* the locals of analyze_file computed from tree
    walk_list,   \* the files under the root, in the order os.walk lists them
    content,     \* the content of each listed file
    buggy_files, \* the argument buggy_files, paths relative to the repository
    pc,          \* where extract_code_metrics_and_labeling stands
    idx,         \* the next entry of walk_list scan_directory looks at
    code_metrics_data,      \* the records collected so far
    buggy_files_full_path,  \* the local list of the labeling loop
    label_i,     \* the index i of the labeling loop
    err,         \* the exception that ended the call, "" when none
    returned,    \* "" while running, then "None" or "list"
    disk,        \* the content the file of one analyze_file call holds now
    apc,         \* where that analyze_file call stands
    src,         \* the content f.read() returned to analyze_file
    tok_seen,    \* the content the tokenizer's open returned
    record,      \* the record the call returns
    writes       \* how often another process has rewritten the file

tvars == <<tree, tpc, m>>

pvars == <<walk_list, content, buggy_files, pc, idx, code_metrics_data,
           buggy_files_full_path, label_i, err, returned>>

avars == <<disk, apc, src, tok_seen, record, writes>>

vars == <<tree, tpc, m, walk_list, content, buggy_files, pc, idx, code_metrics_data,
          buggy_files_full_path, label_i, err, returned, disk, apc, src, tok_seen,
          record, writes>>

\* ------------------------------------------------------------------ bounds
MaxNodes == 3
MaxParams == 1
MaxFiles == 2
MaxBuggy == 2
MaxWrites == 2

\* ------------------------------------------------------------- syntax trees
FuncNames == {"f", "g"}

StmtKinds == {"If", "For", "While", "Try", "With", "FunctionDef", "ClassDef",
              "Raise", "ExceptHandler"}
ExprKinds == {"BoolOp", "IfExp", "Call", "Name", "Attribute"}

Node(k, p, nm, na) == [kind |-> k, parent |-> p, name |-> nm, nargs |-> na]

\* The payload a node of each kind carries: a function definition its name and
\* len(args.args), a name reference its id.
NodePayloads ==
    [kind : (StmtKinds \cup ExprKinds) \ {"FunctionDef", "Name"}, name : {""}, nargs : {0}]
    \cup [kind : {"FunctionDef"}, name : FuncNames, nargs : 0..MaxParams]
    \cup [kind : {"Name"}, name : FuncNames, nargs : {0}]

\* What the grammar lets a node of kind pk hold: a name is a leaf, an
\* expression holds expressions only, a handler belongs to a try.
Allowed(pk, ck) ==
    /\ pk # "Name"
    /\ pk \in ExprKinds => ck \in ExprKinds
    /\ ck = "ExceptHandler" => pk = "Try"

Children(t, i) == {j \in 1..Len(t) : t[j].parent = i}

\* A boolean combination has at least two operands, a call has its callee.
Complete(t) ==
    \A i \in 1..Len(t) :
        /\ t[i].kind = "BoolOp" => Cardinality(Children(t, i)) >= 2
        /\ t[i].kind = "Call" => Cardinality(Children(t, i)) >= 1

RootOnly == {<<Node("Module", 0, "", 0)>>}

\* The trees of one node more than those of T: a new last node under an
\* earlier one.
Grow(T) ==
    {Append(x[1], Node(x[3].kind, x[2], x[3].name, x[3].nargs)) :
        x \in {y \in T \X (1..MaxNodes) \X NodePayloads :
                  /\ y[2] <= Len(y[1])
                  /\ Allowed(y[1][y[2]].kind, y[3].kind)}}

RECURSIVE TreesOfSize(_)
TreesOfSize(n) == IF n = 1 THEN RootOnly ELSE Grow(TreesOfSize(n - 1))

\* `if a and b and c:` -- a conditional whose test combines three operands.
IfAndTree ==
    <<Node("Module", 0, "", 0), Node("If", 1, "", 0), Node("BoolOp", 2, "", 0),
      Node("Name", 3, "f", 0), Node("Name", 3, "g", 0), Node("Name", 3, "f", 0)>>

\* class Outer:
\*     def f(self):
\*         def g(): ...
\*     class Inner:
\*         def g(self): ...
NestedClassTree ==
    <<Node("Module", 0, "", 0), Node("ClassDef", 1, "", 0),
      Node("FunctionDef", 2, "f", 1), Node("FunctionDef", 3, "g", 0),
      Node("ClassDef", 2, "", 0), Node("FunctionDef", 5, "g", 1)>>

\* def g(): ...
\* class C:
\*     def f(self): ...
\* g()
\* f()
\* g.g()
CallsTree ==
    <<Node("Module", 0, "", 0), Node("FunctionDef", 1, "g", 0),
      Node("ClassDef", 1, "", 0), Node("FunctionDef", 3, "f", 1),
      Node("Call", 1, "", 0), Node("Name", 5, "g", 0),
      Node("Call", 1, "", 0), Node("Name", 7, "f", 0),
      Node("Call", 1, "", 0), Node("Attribute", 9, "", 0), Node("Name", 10, "g", 0)>>

SampleTrees == {IfAndTree, NestedClassTree, CallsTree}

WellFormedTrees(n) == {t \in TreesOfSize(n) : Complete(t)}

\* ---------------------------------------------------------------- ast.walk
Max(S) == CHOOSE x \in S : \A y \in S : y <= x

Min(S) == CHOOSE x \in S : \A y \in S : x <= y

RECURSIVE SetToSeq(_)
SetToSeq(S) == IF S = {} THEN <<>> ELSE <<Min(S)>> \o SetToSeq(S \ {Min(S)})

\* ast.iter_child_nodes(node): the children of node i, in order.
iter_child_nodes(t, i) == SetToSeq(Children(t, i))

\* ast.walk(tree): breadth first from the root, each node once.
RECURSIVE walk_from(_, _)
walk_from(t, todo) ==
    IF todo = <<>> THEN <<>>
    ELSE <<Head(todo)>> \o walk_from(t, Tail(todo) \o iter_child_nodes(t, Head(todo)))

walk(t) == walk_from(t, <<1>>)

RECURSIVE SumSeq(_)
SumSeq(s) == IF s = <<>> THEN 0 ELSE Head(s) + SumSeq(Tail(s))

\* [n for n in ast.walk(tree) if isinstance(n, kinds)]
NodesOfKind(t, kinds) == SelectSeq(walk(t), LAMBDA n : t[n].kind \in kinds)

\* sum(isinstance(n, kinds) for n in ast.walk(tree))
CountKind(t, kinds) == Len(NodesOfKind(t, kinds))

\* ---------------------------------------------------- count_decision_points
DECISION_NODES == {"If", "For", "While", "Try", "With", "BoolOp", "IfExp"}

\* len(n.values): the operands of a boolean combination are its children.
LenValues(t, i) == Cardinality(Children(t, i))

\* A variant that adds len(n.values) for each boolean combination.
count_decision_points_operands(t) ==
    LET boolops == NodesOfKind(t, {"BoolOp"})
        cnt == CountKind(t, DECISION_NODES)
               + SumSeq([k \in 1..Len(boolops) |-> LenValues(t, boolops[k])])
    IN  cnt + 1

count_decision_points(t) ==
    LET boolops == NodesOfKind(t, {"BoolOp"})
        cnt == CountKind(t, DECISION_NODES)
               + SumSeq([k \in 1..Len(boolops) |-> LenValues(t, boolops[k]) - 1])
    IN  cnt + 1

\* ------------------------------------------------------------ max_ast_depth
RECURSIVE visit(_, _, _)
visit(t, node, depth) ==
    Max({depth} \cup {visit(t, child, depth + 1) : child \in Children(t, node)})

\* A variant that gives the root depth 1.
max_ast_depth_from_one(t) == visit(t, 1, 1)

max_ast_depth(t) == visit(t, 1, 0)

\* ------------------------------------------------------------- analyze_file
\* round(num / den, 2) in hundredths.  A quotient exactly halfway between two
\* hundredths is a binary fraction only when it is an odd number of eighths,
\* and round() then takes the even hundredth.
Round2(num, den) ==
    LET q == (100 * num) \div den
        r == (100 * num) % den
    IN  IF 2 * r < den THEN q
        ELSE IF 2 * r > den THEN q + 1
        ELSE IF q % 2 = 0 THEN q ELSE q + 1

IsFunctionDef(t, i) == t[i].kind = "FunctionDef"

\* [n for n in ast.walk(tree) if isinstance(n, ast.FunctionDef)]
funcs(t) == NodesOfKind(t, {"FunctionDef"})

\* [n for n in ast.walk(tree) if isinstance(n, ast.ClassDef)]
classes(t) == NodesOfKind(t, {"ClassDef"})

\* cls.body: the statements a class definition holds (its other children,
\* bases and decorators, are expressions).
\* A variant that takes every statement below the class, however deep.
RECURSIVE body_deep(_, _)
body_deep(t, cls) ==
    {j \in Children(t, cls) : t[j].kind \in StmtKinds}
    \cup UNION {body_deep(t, j) : j \in Children(t, cls)}

body(t, cls) == {j \in Children(t, cls) : t[j].kind \in StmtKinds}

\* sum(isinstance(n, ast.FunctionDef) for n in cls.body) for cls in classes
methods_per_class(t) ==
    LET cs == classes(t)
    IN  [k \in 1..Len(cs) |-> Cardinality({j \in body(t, cs[k]) : IsFunctionDef(t, j)})]

\* A variant whose value for a file without functions is not 0.0.
avg_params_undefined(t) ==
    LET fs == funcs(t)
    IN  IF Len(fs) # 0
        THEN Round2(SumSeq([k \in 1..Len(fs) |-> t[fs[k]].nargs]), Len(fs))
        ELSE -100

avg_params(t) ==
    LET fs == funcs(t)
    IN  IF Len(fs) # 0
        THEN Round2(SumSeq([k \in 1..Len(fs) |-> t[fs[k]].nargs]), Len(fs))
        ELSE 0

avg_methods(t) ==
    LET cs == classes(t)
    IN  IF Len(cs) # 0 THEN Round2(SumSeq(methods_per_class(t)), Len(cs)) ELSE 0

\* {f.name for f in funcs}
defined_funcs(t) == LET fs == funcs(t) IN {t[fs[k]].name : k \in 1..Len(fs)}

\* n.func: the callee is the first child of a call.
CallFunc(t, n) == Min(Children(t, n))

\* isinstance(func, ast.Name) and func.id in defined_funcs
IsInternalCall(t, n, defined) ==
    /\ t[CallFunc(t, n)].kind = "Name"
    /\ t[CallFunc(t, n)].name \in defined

NoMetrics ==
    [NOF |-> 0, NOC |-> 0, APF |-> 0, AMC |-> 0, NER |-> 0, NEH |-> 0,
     CYC |-> 0, MAD |-> 0, n_internal |-> 0, n_external |-> 0, methods_total |-> 0]

\* The tree-derived locals of analyze_file.
analyze_tree(t) ==
    LET defined == defined_funcs(t)
        calls == NodesOfKind(t, {"Call"})
        n_internal == Len(SelectSeq(calls, LAMBDA n : IsInternalCall(t, n, defined)))
    IN  [NOF |-> Len(funcs(t)),
         NOC |-> Len(classes(t)),
         APF |-> avg_params(t),
         AMC |-> avg_methods(t),
         NER |-> CountKind(t, {"Raise"}),
         NEH |-> CountKind(t, {"ExceptHandler"}),
         CYC |-> count_decision_points(t),
         MAD |-> max_ast_depth(t),
         n_internal |-> n_internal,
         n_external |-> Len(calls) - n_internal,
         methods_total |-> SumSeq(methods_per_class(t))]

\* ------------------------------------------------------------------- text
\* s.endswith(suffix)
endswith(s, suffix) ==
    /\ Len(s) >= Len(suffix)
    /\ SubSeq(s, Len(s) - Len(suffix) + 1, Len(s)) = suffix

\* os.path.join(a, b)
path_join(a, b) ==
    IF b # <<>> /\ b[1] = "/" THEN b
    ELSE IF a = <<>> \/ a[Len(a)] = "/" THEN a \o b
    ELSE a \o <<"/">> \o b

DotPy == <<".", "p", "y">>

Range(s) == {s[k] : k \in 1..Len(s)}

\* ------------------------------------------------------------ file contents
\* A file's content: whether ast.parse accepts the text read with
\* errors='ignore', whether tokenize can decode its bytes, its lines (a line
\* is code, a comment, code followed by a comment, or blank) and the tree
\* ast.parse builds.
Source(p, d, ls, t) == [parses |-> p, decodes |-> d, lines |-> ls, tree |-> t]

SrcIfAnd == Source(TRUE, TRUE, <<"comment", "code", "code_comment", "blank">>, IfAndTree)

SrcCalls == Source(TRUE, TRUE, <<"code", "blank", "blank", "code">>, CallsTree)

\* unparseable syntax
SrcBroken == Source(FALSE, TRUE, <<"code", "code">>, <<>>)

\* a byte that is not UTF-8, in a comment: ignored by the read, not by tokenize
SrcLatin1 == Source(TRUE, FALSE, <<"code", "comment">>, NestedClassTree)

SrcBrokenLatin1 == Source(FALSE, FALSE, <<"code", "comment">>, <<>>)

PyContents == {SrcIfAnd, SrcCalls, SrcBroken, SrcLatin1, SrcBrokenLatin1}

\* ------------------------------------------------ count_comments_and_blanks
CountLines(ls, kinds) == Cardinality({k \in 1..Len(ls) : ls[k] \in kinds})

\* c_tok is the content the tokenizer's open sees, c_txt the content the
\* blank-line pass sees.
count_comments_and_blanks(c_tok, c_txt) ==
    IF ~c_tok.decodes
    THEN [raised |-> "UnicodeDecodeError", comments |-> 0, blanks |-> 0]
    ELSE [raised |-> "",
          comments |-> CountLines(c_tok.lines, {"comment", "code_comment"}),
          blanks |-> CountLines(c_txt.lines, {"blank"})]

NoRecord ==
    [FILE |-> <<>>, LOC |-> 0, COM |-> 0, BLK |-> 0, NOF |-> 0, NOC |-> 0,
     APF |-> 0, AMC |-> 0, NER |-> 0, NEH |-> 0, CYC |-> 0, MAD |-> 0, BUG |-> 0]

Raise(kind) == [raised |-> kind, rec |-> NoRecord]

\* A variant that answers a file it cannot parse with a zeroed record.
analyze_file_zeroed(path, c) ==
    IF ~c.parses THEN [raised |-> "", rec |-> [NoRecord EXCEPT !.FILE = path]]
    ELSE LET cb == count_comments_and_blanks(c, c)
             a == analyze_tree(c.tree)
         IN  IF cb.raised # "" THEN Raise(cb.raised)
             ELSE [raised |-> "",
                   rec |-> [FILE |-> path,
                            LOC |-> CountLines(c.lines, {"code", "comment", "code_comment"}),
                            COM |-> cb.comments, BLK |-> cb.blanks,
                            NOF |-> a.NOF, NOC |-> a.NOC, APF |-> a.APF, AMC |-> a.AMC,
                            NER |-> a.NER, NEH |-> a.NEH, CYC |-> a.CYC, MAD |-> a.MAD,
                            BUG |-> 0]]

\* analyze_file(path) on a file whose content is c: the record, or the
\* exception it raises.
analyze_file(path, c) ==
    IF ~c.parses THEN Raise("SyntaxError")
    ELSE LET cb == count_comments_and_blanks(c, c)
             a == analyze_tree(c.tree)
         IN  IF cb.raised # "" THEN Raise(cb.raised)
             ELSE [raised |-> "",
                   rec |-> [FILE |-> path,
                            LOC |-> CountLines(c.lines, {"code", "comment", "code_comment"}),
                            COM |-> cb.comments, BLK |-> cb.blanks,
                            NOF |-> a.NOF, NOC |-> a.NOC, APF |-> a.APF, AMC |-> a.AMC,
                            NER |-> a.NER, NEH |-> a.NEH, CYC |-> a.CYC, MAD |-> a.MAD,
                            BUG |-> 0]]

\* ------------------------------------------------------- the working tree
github_repository == <<"r">>

\* f"./{github_repository}/"
local_repo_path == <<".", "/">> \o github_repository \o <<"/">>

A_py == <<"a", ".", "p", "y">>

B_py == <<"b", ".", "p", "y">>

\* a stub file: Python text, but no candidate
A_pyi == <<"a", ".", "p", "y", "i">>

FileNames == {A_py, B_py, A_pyi}

SubDir == <<"s">>

\* The dirpath os.walk gives for the root and for its subdirectory.
DirPaths == <<local_repo_path, path_join(local_repo_path, SubDir)>>

Entries == [dir : 1..2, name : FileNames]

\* os.walk lists the root's files before its subdirectory's, each file once.
Listings(n) ==
    {l \in [1..n -> Entries] :
        \A j, k \in 1..n : j < k => /\ l[j] # l[k]
                                    /\ l[j].dir <= l[k].dir}

ContentsFor(l) ==
    {c \in [1..Len(l) -> PyContents] :
        \A k \in 1..Len(l) : l[k].name = A_pyi => c[k] = SrcIfAnd}

\* The paths GitHub names, relative to the repository.
RelPaths == {A_py, SubDir \o <<"/">> \o A_py}

BuggyLists(n) == [1..n -> RelPaths]

\* ----------------------------------------------------------- scan_directory
\* A variant that asks whether the name contains .py
IsCandidate_contains(name) ==
    \E k \in 1..Len(name) : k + 2 <= Len(name) /\ SubSeq(name, k, k + 2) = DotPy

\* name.endswith('.py')
IsCandidate(name) == endswith(name, DotPy)

\* os.path.join(dirpath, name) of entry k
PathOf(l, k) == path_join(DirPaths[l[k].dir], l[k].name)

\* No single analyze_file call is followed step by step.
AnalysisIdle ==
    /\ disk = SrcIfAnd
    /\ apc = "idle"
    /\ src = SrcIfAnd
    /\ tok_seen = SrcIfAnd
    /\ record = NoRecord
    /\ writes = 0

TreeIdle ==
    /\ tree = <<Node("Module", 0, "", 0)>>
    /\ tpc = "idle"
    /\ m = NoMetrics

\* extract_code_metrics_and_labeling is called on a checked-out repository.
Init ==
    /\ \E n \in 0..MaxFiles : walk_list \in Listings(n)
    /\ content \in ContentsFor(walk_list)
    /\ \E n \in 0..MaxBuggy : buggy_files \in BuggyLists(n)
    /\ pc = "scan"
    /\ idx = 1
    /\ code_metrics_data = <<>>
    /\ buggy_files_full_path = <<>>
    /\ label_i = 0
    /\ err = ""
    /\ returned = ""
    /\ TreeIdle
    /\ AnalysisIdle

\* list(scan_directory(...)) takes the next file: a candidate is analyzed and
\* its record collected, or the exception of analyze_file ends the call.
ScanFile ==
    /\ pc = "scan"
    /\ idx <= Len(walk_list)
    /\ IsCandidate(walk_list[idx].name)
    /\ LET r == analyze_file(PathOf(walk_list, idx), content[idx])
       IN  IF r.raised # ""
           THEN /\ pc' = "raised"
                /\ err' = r.raised
                /\ UNCHANGED <<idx, code_metrics_data>>
           ELSE /\ code_metrics_data' = Append(code_metrics_data, r.rec)
                /\ idx' = idx + 1
                /\ UNCHANGED <<pc, err>>
    /\ UNCHANGED <<walk_list, content, buggy_files, buggy_files_full_path, label_i,
                   returned, tree, tpc, m>>
    /\ UNCHANGED avars

\* A file whose name does not end with .py is passed over.
ScanSkip ==
    /\ pc = "scan"
    /\ idx <= Len(walk_list)
    /\ ~IsCandidate(walk_list[idx].name)
    /\ idx' = idx + 1
    /\ UNCHANGED <<walk_list, content, buggy_files, pc, code_metrics_data,
                   buggy_files_full_path, label_i, err, returned, tree, tpc, m>>
    /\ UNCHANGED avars

\* The walk is over: without records the call returns None, otherwise the
\* labeling starts with an empty buggy_files_full_path.
ScanEnd ==
    /\ pc = "scan"
    /\ idx > Len(walk_list)
    /\ IF code_metrics_data = <<>>
       THEN pc' = "done" /\ returned' = "None"
       ELSE pc' = "label" /\ returned' = returned
    /\ buggy_files_full_path' = <<>>
    /\ label_i' = 0
    /\ UNCHANGED <<walk_list, content, buggy_files, idx, code_metrics_data, err,
                   tree, tpc, m>>
    /\ UNCHANGED avars

\* row['BUG'] = 1 if row["FILE"] in buggy_files_full_path else 0, for every row
Relabel(rows, full_paths) ==
    [k \in 1..Len(rows) |->
        [rows[k] EXCEPT !.BUG = IF rows[k].FILE \in Range(full_paths) THEN 1 ELSE 0]]

\* A variant that labels against the entry just appended only.
LabelStep_latest ==
    /\ pc = "label"
    /\ label_i < Len(buggy_files)
    /\ buggy_files_full_path' =
           Append(buggy_files_full_path, local_repo_path \o buggy_files[label_i + 1])
    /\ code_metrics_data' =
           Relabel(code_metrics_data, <<local_repo_path \o buggy_files[label_i + 1]>>)
    /\ label_i' = label_i + 1
    /\ UNCHANGED <<walk_list, content, buggy_files, pc, idx, err, returned, tree, tpc, m>>
    /\ UNCHANGED avars

\* A variant that writes the label under the key BLK.
LabelStep_wrong_key ==
    /\ pc = "label"
    /\ label_i < Len(buggy_files)
    /\ buggy_files_full_path' =
           Append(buggy_files_full_path, local_repo_path \o buggy_files[label_i + 1])
    /\ code_metrics_data' =
           [k \in 1..Len(code_metrics_data) |->
               [code_metrics_data[k] EXCEPT
                   !.BLK = IF code_metrics_data[k].FILE \in Range(buggy_files_full_path')
                           THEN 1 ELSE 0]]
    /\ label_i' = label_i + 1
    /\ UNCHANGED <<walk_list, content, buggy_files, pc, idx, err, returned, tree, tpc, m>>
    /\ UNCHANGED avars

\* One turn of `for i in range(len(buggy_files))`: the full path of entry i is
\* appended, then every row is labeled against the list so far.
LabelStep ==
    /\ pc = "label"
    /\ label_i < Len(buggy_files)
    /\ buggy_files_full_path' =
           Append(buggy_files_full_path, local_repo_path \o buggy_files[label_i + 1])
    /\ code_metrics_data' = Relabel(code_metrics_data, buggy_files_full_path')
    /\ label_i' = label_i + 1
    /\ UNCHANGED <<walk_list, content, buggy_files, pc, idx, err, returned, tree, tpc, m>>
    /\ UNCHANGED avars

\* return code_metrics_data
Return ==
    /\ pc = "label"
    /\ label_i = Len(buggy_files)
    /\ pc' = "done"
    /\ returned' = "list"
    /\ UNCHANGED <<walk_list, content, buggy_files, idx, code_metrics_data,
                   buggy_files_full_path, label_i, err, tree, tpc, m>>
    /\ UNCHANGED avars

Next ==
    \/ ScanFile
    \/ ScanSkip
    \/ ScanEnd
    \/ LabelStep
    \/ Return

Spec == Init /\ [][Next]_vars

\* ------------------------------------------- the tree metrics on every tree
PipelineIdle ==
    /\ walk_list = <<>>
    /\ content = <<>>
    /\ buggy_files = <<>>
    /\ pc = "idle"
    /\ idx = 1
    /\ code_metrics_data = <<>>
    /\ buggy_files_full_path = <<>>
    /\ label_i = 0
    /\ err = ""
    /\ returned = ""

TreeInit ==
    /\ \/ \E n \in 1..MaxNodes : tree \in WellFormedTrees(n)
       \/ tree \in SampleTrees
    /\ tpc = "parsed"
    /\ m = NoMetrics
    /\ PipelineIdle
    /\ AnalysisIdle

AnalyzeTree ==
    /\ tpc = "parsed"
    /\ m' = analyze_tree(tree)
    /\ tpc' = "analyzed"
    /\ UNCHANGED tree
    /\ UNCHANGED pvars
    /\ UNCHANGED avars

TreeNext == AnalyzeTree

SpecTree == TreeInit /\ [][TreeNext]_vars

\* --------------------------- one analyze_file call beside a writing process
\* The path of the file the call analyzes.
AnalyzedPath == path_join(local_repo_path, A_py)

\* analyze_file(path) is called; the file holds any content.
RaceInit ==
    /\ disk \in PyContents
    /\ apc = "read"
    /\ src = disk
    /\ tok_seen = disk
    /\ record = NoRecord
    /\ writes = 0
    /\ TreeIdle
    /\ PipelineIdle

\* with open(path, 'r', ...) as f: src = f.read(); tree = ast.parse(src)
ReadAndParse ==
    /\ apc = "read"
    /\ src' = disk
    /\ apc' = IF disk.parses THEN "tokenize" ELSE "raised"
    /\ UNCHANGED <<disk, tok_seen, record, writes>>
    /\ UNCHANGED <<tvars, pvars>>

\* count_comments_and_blanks opens the path again, 'rb', and tokenizes it.
CountComments ==
    /\ apc = "tokenize"
    /\ tok_seen' = disk
    /\ apc' = IF count_comments_and_blanks(disk, disk).raised = "" THEN "blanks"
              ELSE "raised"
    /\ UNCHANGED <<disk, src, record, writes>>
    /\ UNCHANGED <<tvars, pvars>>

\* count_comments_and_blanks opens the path a third time and counts its blank
\* lines; the rest of analyze_file works on tree and builds the record.
CountBlanksAndBuild ==
    /\ apc = "blanks"
    /\ LET cb == count_comments_and_blanks(tok_seen, disk)
           a == analyze_tree(src.tree)
       IN  record' = [FILE |-> AnalyzedPath,
                      LOC |-> CountLines(src.lines, {"code", "comment", "code_comment"}),
                      COM |-> cb.comments, BLK |-> cb.blanks,
                      NOF |-> a.NOF, NOC |-> a.NOC, APF |-> a.APF, AMC |-> a.AMC,
                      NER |-> a.NER, NEH |-> a.NEH, CYC |-> a.CYC, MAD |-> a.MAD,
                      BUG |-> 0]
    /\ apc' = "done"
    /\ UNCHANGED <<disk, src, tok_seen, writes>>
    /\ UNCHANGED <<tvars, pvars>>

\* Another process replaces the file's content while the call is in progress.
Rewrite ==
    /\ apc \in {"read", "tokenize", "blanks"}
    /\ writes < MaxWrites
    /\ disk' \in PyContents \ {disk}
    /\ writes' = writes + 1
    /\ UNCHANGED <<apc, src, tok_seen, record>>
    /\ UNCHANGED <<tvars, pvars>>

RaceNext ==
    \/ ReadAndParse
    \/ CountComments
    \/ CountBlanksAndBuild
    \/ Rewrite

SpecRace == RaceInit /\ [][RaceNext]_vars

\* ------------------------------------------------ claims on the tree metrics
Analyzed == tpc = "analyzed"

NodesOf(t) == 1..Len(t)

\* The sum of f[x] over the x in S.
RECURSIVE SumSet(_, _)
SumSet(S, f) ==
    IF S = {} THEN 0
    ELSE LET x == CHOOSE y \in S : TRUE IN f[x] + SumSet(S \ {x}, f)

\* conditional, loop, exception-try, context-scope, boolean-combination,
\* conditional-expression
DecisionKinds == {"If", "For", "While", "Try", "With", "BoolOp", "IfExp"}

DecisionNodesOf(t) == {n \in NodesOf(t) : t[n].kind \in DecisionKinds}

BoolOpsOf(t) == {n \in NodesOf(t) : t[n].kind = "BoolOp"}

OperandCount(t, n) == Cardinality({c \in NodesOf(t) : t[c].parent = n})

ExpectedComplexity(t) ==
    LET extra == [n \in BoolOpsOf(t) |-> OperandCount(t, n) - 1]
    IN  1 + Cardinality(DecisionNodesOf(t)) + SumSet(BoolOpsOf(t), extra)

\* C1: the complexity of a tree is 1 + the number of its decision nodes +, for
\* every boolean combination, its operand count - 1; so it is at least 1, it
\* is 1 for a tree without decision nodes, and 5 for `if a and b and c:`.
C1_Complexity ==
    Analyzed =>
        /\ m.CYC = ExpectedComplexity(tree)
        /\ m.CYC >= 1
        /\ DecisionNodesOf(tree) = {} => m.CYC = 1
        /\ tree = IfAndTree => m.CYC = 5

C1_Witness == Analyzed /\ tree = IfAndTree /\ m.CYC = 5

\* C5 as stated: APF is 0.0 exactly when NOF is 0, AMC is 0.0 exactly when NOC
\* is 0.
C5_Original ==
    Analyzed =>
        /\ m.APF = 0 <=> m.NOF = 0
        /\ m.AMC = 0 <=> m.NOC = 0

\* C5, amended: APF is 0.0 whenever NOF is 0 and AMC is 0.0 whenever NOC is 0.
C5_ZeroWhenNone ==
    Analyzed =>
        /\ m.NOF = 0 => m.APF = 0
        /\ m.NOC = 0 => m.AMC = 0

C5_Witness == Analyzed /\ m.NOF = 0 /\ m.NOC = 0 /\ m.APF = 0 /\ m.AMC = 0

\* The definitions that enclose node n: its ancestors that are function or
\* class definitions.
RECURSIVE Enclosing(_, _)
Enclosing(t, n) ==
    IF t[n].parent = 0 THEN {}
    ELSE (IF t[t[n].parent].kind \in {"FunctionDef", "ClassDef"} THEN {t[n].parent} ELSE {})
         \cup Enclosing(t, t[n].parent)

ModuleScopeFunctionNames(t) ==
    {t[n].name : n \in {f \in NodesOf(t) : t[f].kind = "FunctionDef" /\ Enclosing(t, f) = {}}}

CallsOf(t) == {n \in NodesOf(t) : t[n].kind = "Call"}

Callee(t, n) == CHOOSE c \in NodesOf(t) :
                    /\ t[c].parent = n
                    /\ \A d \in NodesOf(t) : t[d].parent = n => c <= d

InternalCallsOf(t) ==
    {n \in CallsOf(t) : /\ t[Callee(t, n)].kind = "Name"
                        /\ t[Callee(t, n)].name \in ModuleScopeFunctionNames(t)}

\* C6: a call is counted internal exactly when its callee is a bare name that
\* names a function defined at module scope; every other call is counted
\* external.
C6_CallClassification ==
    Analyzed =>
        /\ m.n_internal = Cardinality(InternalCallsOf(tree))
        /\ m.n_external = Cardinality(CallsOf(tree) \ InternalCallsOf(tree))

RECURSIVE DepthOf(_, _)
DepthOf(t, n) == IF t[n].parent = 0 THEN 0 ELSE 1 + DepthOf(t, t[n].parent)

LeavesOf(t) == {n \in NodesOf(t) : \A c \in NodesOf(t) : t[c].parent # n}

\* C7: the depth of a tree is the length of its longest root-to-leaf path, the
\* root at depth 0; it is 0 for a root without children.
C7_MaxDepth ==
    Analyzed =>
        /\ \E leaf \in LeavesOf(tree) : m.MAD = DepthOf(tree, leaf)
        /\ \A leaf \in LeavesOf(tree) : DepthOf(tree, leaf) <= m.MAD
        /\ Len(tree) = 1 => m.MAD = 0

C7_Witness == Analyzed /\ tree = IfAndTree /\ m.MAD = 3

MethodsOf(t) ==
    {f \in NodesOf(t) : /\ t[f].kind = "FunctionDef"
                        /\ t[f].parent # 0
                        /\ t[t[f].parent].kind = "ClassDef"}

\* C8: the methods total is the number of function definitions that are direct
\* children of a class definition, each counted once, for the class that holds
\* it; the average is that total over the class count.
C8_DirectMethods ==
    Analyzed =>
        /\ m.methods_total = Cardinality(MethodsOf(tree))
        /\ m.NOC # 0 => m.AMC = Round2(Cardinality(MethodsOf(tree)), m.NOC)

C8_Witness ==
    Analyzed /\ tree = NestedClassTree /\ m.methods_total = 2 /\ m.NOF = 3 /\ m.AMC = 100

\* --------------------------------------------------- claims on the pipeline
\* A listed file is a candidate when its name ends in .py.
CandidateEntries == {k \in 1..Len(walk_list) : endswith(walk_list[k].name, <<".", "p", "y">>)}

FullPath(k) ==
    IF walk_list[k].dir = 1
    THEN <<".", "/", "r", "/">> \o walk_list[k].name
    ELSE <<".", "/", "r", "/", "s", "/">> \o walk_list[k].name

Analyzable(k) == content[k].parses /\ content[k].decodes

Delivered(k) ==
    /\ returned = "list"
    /\ \E j \in 1..Len(code_metrics_data) : code_metrics_data[j].FILE = FullPath(k)

CallEnded == pc \in {"done", "raised"}

\* C2: a file that fails to parse or decode does not abort the scan: every
\* other candidate file is analyzed and its record delivered to the caller.
C2_FailureDoesNotAbort ==
    CallEnded =>
        ((\E k \in CandidateEntries : ~Analyzable(k))
            => \A k \in CandidateEntries : Analyzable(k) => Delivered(k))

FullPathsOfBuggy == {<<".", "/", "r", "/">> \o buggy_files[k] : k \in 1..Len(buggy_files)}

\* C3: in the returned list a record's BUG is 1 if and only if its FILE is
\* the full path of some entry of buggy_files, and 0 otherwise.
C3_LabelByExactPath ==
    returned = "list" =>
        \A j \in 1..Len(code_metrics_data) :
            /\ code_metrics_data[j].BUG \in {0, 1}
            /\ code_metrics_data[j].BUG = 1 <=> code_metrics_data[j].FILE \in FullPathsOfBuggy

C3_Witness ==
    /\ returned = "list"
    /\ Len(buggy_files) = 2
    /\ buggy_files[1] # buggy_files[2]
    /\ \E j, k \in 1..Len(code_metrics_data) :
          code_metrics_data[j].BUG = 1 /\ code_metrics_data[k].BUG = 0

\* C4: analyzing a file with unparseable syntax ends in a SyntaxError (the
\* scan never gets past such a file), and no record of such a file is ever
\* among the records.
C4_SyntaxErrorNoRecord ==
    /\ (pc = "raised" /\ ~content[idx].parses) => err = "SyntaxError"
    /\ \A k \in CandidateEntries :
          ~content[k].parses =>
              /\ \A j \in 1..Len(code_metrics_data) : code_metrics_data[j].FILE # FullPath(k)
              /\ idx <= k

C4_Witness ==
    /\ pc = "raised"
    /\ err = "SyntaxError"
    /\ ~content[idx].parses
    /\ ~content[idx].decodes
    /\ code_metrics_data # <<>>

FilesOfRecords == [j \in 1..Len(code_metrics_data) |-> code_metrics_data[j].FILE]

NoSharedFile ==
    \A j, k \in 1..Len(code_metrics_data) :
        j # k => code_metrics_data[j].FILE # code_metrics_data[k].FILE

ScanOver == pc \in {"label", "done", "raised"}

RECURSIVE CandidatePathsUpTo(_)
CandidatePathsUpTo(n) ==
    IF n = 0 THEN <<>>
    ELSE CandidatePathsUpTo(n - 1)
         \o (IF n \in CandidateEntries THEN <<FullPath(n)>> ELSE <<>>)

MetricFields == {"FILE", "LOC", "COM", "BLK", "NOF", "NOC", "APF", "AMC", "NER", "NEH",
                 "CYC", "MAD"}

SameButBug(before, after) ==
    /\ Len(after) = Len(before)
    /\ \A j \in 1..Len(before) :
          /\ DOMAIN after[j] = DOMAIN before[j]
          /\ \A f \in MetricFields : after[j][f] = before[j][f]

AllBugZero == \A j \in 1..Len(code_metrics_data) : code_metrics_data[j].BUG = 0

\* C10: every record scan_directory produced has BUG 0 until the labeling
\* acts, and the labeling changes nothing but BUG: the FILE and metric fields,
\* the number and the order of the records stay.
C10_LabelingFrame ==
    /\ []((pc = "scan" \/ (pc = "label" /\ label_i = 0)) => AllBugZero)
    /\ [][pc = "label" => SameButBug(code_metrics_data, code_metrics_data')]_vars

C10_Witness ==
    /\ returned = "list"
    /\ Len(code_metrics_data) = 2
    /\ code_metrics_data[1].BUG = 0
    /\ code_metrics_data[2].BUG = 1

\* ------------------------------------- claims on a call beside a writer
\* The record analyze_file gives for a file that holds c throughout.
RecordOf(c) ==
    [FILE |-> <<".", "/", "r", "/", "a", ".", "p", "y">>,
     LOC |-> Cardinality({k \in 1..Len(c.lines) : c.lines[k] # "blank"}),
     COM |-> Cardinality({k \in 1..Len(c.lines) : c.lines[k] \in {"comment", "code_comment"}}),
     BLK |-> Cardinality({k \in 1..Len(c.lines) : c.lines[k] = "blank"}),
     NOF |-> analyze_tree(c.tree).NOF, NOC |-> analyze_tree(c.tree).NOC,
     APF |-> analyze_tree(c.tree).APF, AMC |-> analyze_tree(c.tree).AMC,
     NER |-> analyze_tree(c.tree).NER, NEH |-> analyze_tree(c.tree).NEH,
     CYC |-> analyze_tree(c.tree).CYC, MAD |-> analyze_tree(c.tree).MAD,
     BUG |-> 0]

\* C11: the call reads the file once, so the record it returns is the record
\* of one content of the file, also when the file is rewritten meanwhile:
\* LOC, COM, BLK and the tree metrics never come from different contents.
C11_RecordOfOneText ==
    apc = "done" =>
        \E c \in {d \in PyContents : d.parses /\ d.decodes} : record = RecordOf(c)

====
